---------------------------- MODULE Spec2Model ----------------------------
(***************************************************************************)
(* A model of the demonstration functions of the effective-py notebooks.   *)
(* Every notebook item is an independent snippet, so every item has its    *)
(* own variables, its own initial predicate and its own specification;     *)
(* the variables of the other items stay at their idle values.             *)
(*                                                                         *)
(* Python values are records [type, val]: type is the name of the Python   *)
(* class and val a sequence of naturals (the code points of a str, the     *)
(* bytes of a bytes object, the digits of anything else).                  *)
(***************************************************************************)
EXTENDS Integers, Sequences, FiniteSets, TLC

VARIABLES
    data,       \* Item 56: the argument of the last to_str call
    outcome,    \* Item 56: what that call did (returned value or raised exception)
    verdict,    \* Item 56: the verdict of the assertion made on that call, if any
    locked,     \* Item 43: whether the threading.Lock is locked
    pc,         \* Item 43: where each thread is in its statement
    form,       \* Item 43: the form each thread runs, "with" or "try"
    exc,        \* Item 43: whether the body of each thread raised
    state,      \* Item 44: the __dict__ of the GameState object `state`
    serialized, \* Item 44: what pickle.dumps stored: the reduce function and its argument
    state_after,\* Item 44: what pickle.loads did: the restored object's __dict__, or the exception
    dumped,     \* Item 44: the __dict__ of `state` when pickle.dumps was called (history)
    logLevel,   \* Item 43: the level set on each logger (NOTSET when none is set)
    rootHandlers, \* Item 43: whether the root logger has a handler (basicConfig has run)
    imported,   \* Item 43: whether the name `logging` is bound in the notebook
    run,        \* Item 43: the cell being run: its position, arguments and old_level
    output,     \* Item 43: the log records emitted by the cell run last
    values,     \* Item 15: the list handed to the sort_priority functions, sorted in place
    group,      \* Item 15: the set of numbers that come first
    found,      \* Item 15: the value returned by the function called last
    called,     \* Item 15: the function called last
    original,   \* Item 15: the list as it was when that function was called (history)
    numbers,    \* Item 17: the object handed to normalize: a list, a container or an iterator
    percentages,\* Item 17: what the call made last did: the list returned, or the exception
    normalizer, \* Item 17: the function called last
    before,     \* Item 17: the object as it was when that function was called (history)
    heap,       \* Item 20: the dict objects: heap[id] is the content of the dict id
    calls,      \* Item 20: the decode calls made, with what each was given and returned
    clock,      \* Item 20: what datetime.now() returns, in ticks
    when_default, \* Item 20: the default of `when` held by the first log function
    printed,    \* Item 20: the lines the log calls printed, with what each was given
    file,       \* Item 13: the file at `path`: its content, or no file
    handle,     \* Item 13: the file object of the running call: none, open or closed
    frame,      \* Item 13: the running divide_json call: its position and its locals
    finished,   \* Item 13: what the divide_json call made last did
    opened,     \* Item 13: the file as it was when that call was made (history)
    args,       \* Item 51: the arguments of the determine_weight call in the try statement
    in_flight,  \* Item 51: the exception in flight, if any
    weight,     \* Item 51: what the try statement did
    errors      \* Item 51: the lines logging.error wrote

item56Vars == <<data, outcome, verdict>>
lockVars == <<locked, pc, form, exc>>
pickleVars == <<state, serialized, state_after, dumped>>
logVars == <<logLevel, rootHandlers, imported, run, output>>
sortVars == <<values, group, found, called, original>>
normVars == <<numbers, percentages, normalizer, before>>
decodeVars == <<heap, calls>>
stampVars == <<clock, when_default, printed>>
divideVars == <<file, handle, frame, finished, opened>>
weightVars == <<args, in_flight, weight, errors>>

vars == <<item56Vars, lockVars, pickleVars, logVars, sortVars, normVars,
          decodeVars, stampVars, divideVars, weightVars>>

\* What the actions of an item leave alone: the variables of the others.
notItem56 ==
    <<lockVars, pickleVars, logVars, sortVars, normVars, decodeVars,
      stampVars, divideVars, weightVars>>
notLock ==
    <<item56Vars, pickleVars, logVars, sortVars, normVars, decodeVars,
      stampVars, divideVars, weightVars>>
notPickle ==
    <<item56Vars, lockVars, logVars, sortVars, normVars, decodeVars,
      stampVars, divideVars, weightVars>>
notLog ==
    <<item56Vars, lockVars, pickleVars, sortVars, normVars, decodeVars,
      stampVars, divideVars, weightVars>>
notSort ==
    <<item56Vars, lockVars, pickleVars, logVars, normVars, decodeVars,
      stampVars, divideVars, weightVars>>
notNorm ==
    <<item56Vars, lockVars, pickleVars, logVars, sortVars, decodeVars,
      stampVars, divideVars, weightVars>>
notDecode ==
    <<item56Vars, lockVars, pickleVars, logVars, sortVars, normVars,
      stampVars, divideVars, weightVars>>
notStamp ==
    <<item56Vars, lockVars, pickleVars, logVars, sortVars, normVars,
      decodeVars, divideVars, weightVars>>
notDivide ==
    <<item56Vars, lockVars, pickleVars, logVars, sortVars, normVars,
      decodeVars, stampVars, weightVars>>
notWeight ==
    <<item56Vars, lockVars, pickleVars, logVars, sortVars, normVars,
      decodeVars, stampVars, divideVars>>

(***************************************************************************)
(* Bounds of the model.                                                    *)
(***************************************************************************)
MaxLen == 3
NThreads == 3
MaxLevel == 1
MaxAdds == 2
MaxList == 3
MaxNum == 2
MaxCalls == 2

\* All sequences over S of length at most n.
SeqUpTo(S, n) == UNION {[1..k -> S] : k \in 0..n}

\* A Python value.
Val(t, v) == [type |-> t, val |-> v]
NoValue == Val("<no value>", <<>>)

\* What a call did.
Return(v) == [kind |-> "return", exc |-> "", value |-> v]
Raise(e) == [kind |-> "raise", exc |-> e, value |-> NoValue]
NotCalled == [kind |-> "none", exc |-> "", value |-> NoValue]

(***************************************************************************)
(* Item 56: to_str (Production.ipynb, utils.py) and its unittest case.     *)
(***************************************************************************)

\* bytes.decode('utf-8'), strict error handler: the code points of a
\* well-formed UTF-8 byte sequence, or a failure (UnicodeDecodeError).
\* Overlong forms, surrogates and values above U+10FFFF are malformed.
IsCont(b) == b >= 128 /\ b <= 191

RECURSIVE Utf8Decode(_)
Utf8Decode(bs) ==
    IF bs = <<>> THEN [ok |-> TRUE, val |-> <<>>]
    ELSE
      LET b1 == bs[1]
          n == Len(bs)
          need == IF b1 < 128 THEN 1
                  ELSE IF b1 >= 194 /\ b1 <= 223 THEN 2
                  ELSE IF b1 >= 224 /\ b1 <= 239 THEN 3
                  ELSE IF b1 >= 240 /\ b1 <= 244 THEN 4
                  ELSE 0
          lo2 == IF b1 = 224 THEN 160 ELSE IF b1 = 240 THEN 144 ELSE 128
          hi2 == IF b1 = 237 THEN 159 ELSE IF b1 = 244 THEN 143 ELSE 191
          wellFormed ==
              /\ need > 0
              /\ n >= need
              /\ need >= 2 => (bs[2] >= lo2 /\ bs[2] <= hi2)
              /\ need >= 3 => IsCont(bs[3])
              /\ need >= 4 => IsCont(bs[4])
          cp == IF need = 1 THEN b1
                ELSE IF need = 2 THEN (b1 - 192) * 64 + (bs[2] - 128)
                ELSE IF need = 3 THEN
                    (b1 - 224) * 4096 + (bs[2] - 128) * 64 + (bs[3] - 128)
                ELSE (b1 - 240) * 262144 + (bs[2] - 128) * 4096
                         + (bs[3] - 128) * 64 + (bs[4] - 128)
      IN IF ~wellFormed THEN [ok |-> FALSE, val |-> <<>>]
         ELSE LET rest == Utf8Decode(SubSeq(bs, need + 1, n))
              IN IF rest.ok THEN [ok |-> TRUE, val |-> <<cp>> \o rest.val]
                 ELSE rest

\* isinstance(x, cls) for the built-in classes of the model (none of them
\* is a subclass of another).
isinstance(x, cls) == x.type = cls

\* A faulty variant of to_str: bytes are handed back undecoded.
to_str_no_decode(d) ==
    IF isinstance(d, "str") THEN Return(d)
    ELSE IF isinstance(d, "bytes") THEN Return(d)
    ELSE Raise("TypeError")

\* def to_str(data)
to_str(d) ==
    IF isinstance(d, "str") THEN Return(d)
    ELSE IF isinstance(d, "bytes") THEN
        LET dec == Utf8Decode(d.val)
        IN IF dec.ok THEN Return(Val("str", dec.val))
           ELSE Raise("UnicodeDecodeError")
    ELSE Raise("TypeError")

\* The bytes and the code points the inputs are built from: h, e-acute
\* (C3 A9), the euro sign (E2 82 AC) and FF, a byte no UTF-8 text holds.
ByteAlphabet == {104, 195, 169, 226, 130, 172, 255}
CharAlphabet == {104, 233, 8364}
OtherTypes == {"bytearray", "int", "NoneType", "tuple", "object"}

ToStrInputs ==
    {Val("str", s) : s \in SeqUpTo(CharAlphabet, MaxLen)}
      \cup {Val("bytes", b) : b \in SeqUpTo(ByteAlphabet, MaxLen)}
      \cup {Val(t, b) : t \in OtherTypes, b \in SeqUpTo({104}, 1)}

hello == <<104, 101, 108, 108, 111>>

\* The verdict of a TestCase assertion.
assertion(holds) == IF holds THEN "pass" ELSE "fail"

Item56Init ==
    /\ data = NoValue
    /\ outcome = NotCalled
    /\ verdict = "none"

\* A caller applies to_str to some value.
CallToStr ==
    \E d \in ToStrInputs :
        /\ data' = d
        /\ outcome' = to_str(d)
        /\ verdict' = "none"
        /\ UNCHANGED notItem56

\* self.assertEqual('hello', to_str(b'hello'))
test_to_str_bytes ==
    /\ data' = Val("bytes", hello)
    /\ outcome' = to_str(data')
    /\ verdict' = assertion(outcome' = Return(Val("str", hello)))
    /\ UNCHANGED notItem56

\* self.assertEqual('hello', to_str('hello'))
test_to_str_str ==
    /\ data' = Val("str", hello)
    /\ outcome' = to_str(data')
    /\ verdict' = assertion(outcome' = Return(Val("str", hello)))
    /\ UNCHANGED notItem56

\* self.assertRaises(TypeError, to_str, object())
test_to_str_bad ==
    /\ data' = Val("object", <<>>)
    /\ outcome' = to_str(data')
    /\ verdict' = assertion(outcome' = Raise("TypeError"))
    /\ UNCHANGED notItem56

Item56Next ==
    \/ CallToStr
    \/ test_to_str_bytes
    \/ test_to_str_str
    \/ test_to_str_bad

Item56Idle ==
    /\ data = NoValue
    /\ outcome = NotCalled
    /\ verdict = "none"

(***************************************************************************)
(* Item 43: the two ways of holding a threading.Lock around a body         *)
(* (Collaboration.ipynb).  A Lock is either locked or unlocked; acquire()  *)
(* blocks while it is locked; release() unlocks it.  The body, a write to  *)
(* stdout, either completes or raises.                                     *)
(***************************************************************************)
Threads == 1..NThreads

\* lock.acquire(), blocking: enabled only while the lock is unlocked.
acquire ==
    /\ ~locked
    /\ locked' = TRUE

\* lock.release()
release == locked' = FALSE

\* "with lock:" evaluates lock.__enter__(), which acquires the lock.
with_enter(t) ==
    /\ form[t] = "with"
    /\ pc[t] = "start"
    /\ acquire
    /\ pc' = [pc EXCEPT ![t] = "with_body"]
    /\ UNCHANGED <<form, exc, notLock>>

\* The body of the with statement: completes or raises.
with_body(t) ==
    /\ pc[t] = "with_body"
    /\ \E raised \in BOOLEAN : exc' = [exc EXCEPT ![t] = raised]
    /\ pc' = [pc EXCEPT ![t] = "__exit__"]
    /\ UNCHANGED <<locked, form, notLock>>

\* Leaving the with statement calls lock.__exit__(), on a normal end and on
\* an exception alike; it releases the lock and lets the exception through.
with_exit(t) ==
    /\ pc[t] = "__exit__"
    /\ release
    /\ pc' = [pc EXCEPT ![t] = "done"]
    /\ UNCHANGED <<form, exc, notLock>>

\* lock.acquire() in front of the try statement.
explicit_acquire(t) ==
    /\ form[t] = "try"
    /\ pc[t] = "start"
    /\ acquire
    /\ pc' = [pc EXCEPT ![t] = "try"]
    /\ UNCHANGED <<form, exc, notLock>>

\* The try block: completes or raises.
try_body(t) ==
    /\ pc[t] = "try"
    /\ \E raised \in BOOLEAN : exc' = [exc EXCEPT ![t] = raised]
    /\ pc' = [pc EXCEPT ![t] = "finally"]
    /\ UNCHANGED <<locked, form, notLock>>

\* A faulty variant of finally_release: lock.release() written after the try
\* statement instead of in a finally block, so an exception skips it.
release_after_try(t) ==
    /\ pc[t] = "finally"
    /\ IF exc[t] THEN UNCHANGED locked ELSE release
    /\ pc' = [pc EXCEPT ![t] = "done"]
    /\ UNCHANGED <<form, exc, notLock>>

\* The finally block: lock.release(), then the exception, if any, goes on.
finally_release(t) ==
    /\ pc[t] = "finally"
    /\ release
    /\ pc' = [pc EXCEPT ![t] = "done"]
    /\ UNCHANGED <<form, exc, notLock>>

LockInit ==
    /\ locked = FALSE
    /\ pc = [t \in Threads |-> "start"]
    /\ form \in [Threads -> {"with", "try"}]
    /\ exc = [t \in Threads |-> FALSE]

LockIdle ==
    /\ locked = FALSE
    /\ pc = <<>>
    /\ form = <<>>
    /\ exc = <<>>

LockNext ==
    \E t \in Threads :
        \/ with_enter(t)
        \/ with_body(t)
        \/ with_exit(t)
        \/ explicit_acquire(t)
        \/ try_body(t)
        \/ finally_release(t)

(***************************************************************************)
(* Item 44: GameState pickled through copyreg (Collaboration.ipynb).       *)
(* A dict, and with it the __dict__ of an object, is a set of <<key,       *)
(* value>> pairs with one pair for a key.                                  *)
(***************************************************************************)
DictHas(d, k) == \E p \in d : p[1] = k
DictGet(d, k) == (CHOOSE p \in d : p[1] = k)[2]
DictPop(d, k) == {p \in d : p[1] # k}
DictSet(d, k, v) == DictPop(d, k) \cup {<<k, v>>}
DictKeys(d) == {p[1] : p \in d}

\* What an expression that builds an object did.
Object(d) == [kind |-> "return", exc |-> "", obj |-> d]
Failed(e) == [kind |-> "raise", exc |-> e, obj |-> {}]
NotLoaded == [kind |-> "none", exc |-> "", obj |-> {}]

DefaultLevel == 0
DefaultLives == 4
DefaultPoints == 0
PointsStep == 1000
CurrentVersion == 2

\* GameState(**kwargs): __init__(self, level=0, lives=4, points=0).
\* A keyword that is no parameter is a TypeError.
GameState(kwargs) ==
    IF ~(DictKeys(kwargs) \subseteq {"level", "lives", "points"})
    THEN Failed("TypeError")
    ELSE LET arg(k, default) ==
                 IF DictHas(kwargs, k) THEN DictGet(kwargs, k) ELSE default
         IN Object({<<"level", arg("level", DefaultLevel)>>,
                    <<"lives", arg("lives", DefaultLives)>>,
                    <<"points", arg("points", DefaultPoints)>>})

\* def unpickle_game_state(kwargs)
unpickle_game_state(kwargs) ==
    LET version == IF DictHas(kwargs, "version")
                   THEN DictGet(kwargs, "version") ELSE 1
        popped == DictPop(kwargs, "version")
    IN IF version = 1
       THEN IF DictHas(popped, "lives")
            THEN GameState(DictPop(popped, "lives"))
            ELSE Failed("KeyError")
       ELSE GameState(popped)

\* A faulty variant of pickle_game_state: the version is not recorded.
pickle_game_state_unversioned(game_state) ==
    [dict |-> game_state,
     reduce |-> [func |-> "unpickle_game_state", args |-> game_state]]

\* def pickle_game_state(game_state): kwargs is the object's own __dict__,
\* so the version is stored in the object as well as in the pickle.
pickle_game_state(game_state) ==
    LET kwargs == DictSet(game_state, "version", CurrentVersion)
    IN [dict |-> kwargs,
        reduce |-> [func |-> "unpickle_game_state", args |-> kwargs]]

NoPickle == [func |-> "", args |-> {}]

Levels == 0..MaxLevel
Lives == {0, DefaultLives}
Points == {n * PointsStep : n \in 0..MaxAdds}

PickleInit ==
    /\ state = GameState({}).obj
    /\ serialized = NoPickle
    /\ state_after = NotLoaded
    /\ dumped = {}

PickleIdle ==
    /\ state = {}
    /\ serialized = NoPickle
    /\ state_after = NotLoaded
    /\ dumped = {}

\* state = GameState(level, lives, points)
NewGameState ==
    \E l \in Levels, v \in Lives, p \in Points :
        /\ state' = GameState({<<"level", l>>, <<"lives", v>>, <<"points", p>>}).obj
        /\ UNCHANGED <<serialized, state_after, dumped, notPickle>>

\* state.points += 1000
AddPoints ==
    /\ DictGet(state, "points") < MaxAdds * PointsStep
    /\ state' = DictSet(state, "points", DictGet(state, "points") + PointsStep)
    /\ UNCHANGED <<serialized, state_after, dumped, notPickle>>

\* serialized = pickle.dumps(state): pickle finds pickle_game_state in the
\* copyreg dispatch table, calls it and stores the function and a copy of
\* the argument it returns.
Dumps ==
    LET r == pickle_game_state(state)
    IN /\ dumped' = state
       /\ state' = r.dict
       /\ serialized' = r.reduce
       /\ UNCHANGED <<state_after, notPickle>>

\* state_after = pickle.loads(serialized): the stored function is applied
\* to the stored argument.
Loads ==
    /\ serialized # NoPickle
    /\ state_after' = unpickle_game_state(serialized.args)
    /\ UNCHANGED <<state, serialized, dumped, notPickle>>

PickleNext ==
    \/ NewGameState
    \/ AddPoints
    \/ Dumps
    \/ Loads

(***************************************************************************)
(* Item 43: debug_logging and log_level (Collaboration.ipynb), two cells   *)
(* of one notebook kernel.  The kernel runs one cell at a time, to its     *)
(* end, in whatever order the cells are submitted.  The logging module:    *)
(* a logger with no level of its own takes the level of the root logger;   *)
(* a record is emitted when its level reaches the effective level of the   *)
(* logger it is sent to and a handler takes it; the module-level           *)
(* functions log to the root logger and call basicConfig() first when the  *)
(* root logger has no handler.                                             *)
(***************************************************************************)
NOTSET == 0
DEBUG == 10
INFO == 20
WARNING == 30
ERROR == 40

Loggers == {"root", "my-log", "other-log"}

\* Logger.getEffectiveLevel()
getEffectiveLevel(levels, name) ==
    IF levels[name] # NOTSET THEN levels[name] ELSE levels["root"]

\* Logger.setLevel(level)
setLevel(levels, name, level) == [levels EXCEPT ![name] = level]

\* Logger.isEnabledFor(level)
isEnabledFor(levels, name, level) == level >= getEffectiveLevel(levels, name)

\* Logger.callHandlers(): the record reaches the root logger's handler, or,
\* when there is none, the last-resort handler, whose level is WARNING.
callHandlers(handlers, level) == handlers \/ level >= WARNING

\* Logger.debug / info / warning / error on the logger `name`: the records
\* emitted.
LoggerLog(levels, handlers, name, level, msg) ==
    IF isEnabledFor(levels, name, level) /\ callHandlers(handlers, level)
    THEN <<[logger |-> name, level |-> level, msg |-> msg]>>
    ELSE <<>>

\* logging.debug / info / warning / error: basicConfig() has given the root
\* logger a handler by the time the record is handled.
ModuleLog(levels, level, msg) == LoggerLog(levels, TRUE, "root", level, msg)

\* def my_function()
my_function(levels) ==
    ModuleLog(levels, DEBUG, "Some debug data")
      \o ModuleLog(levels, ERROR, "Error log here")
      \o ModuleLog(levels, DEBUG, "More debug data")

\* No cell is running when pc is 0; cell is then the one that ran last.
Idle == [cell |-> "none", pc |-> 0, level |-> NOTSET, name |-> "", old_level |-> NOTSET]

ArgLevels == {DEBUG, INFO, WARNING, ERROR}
ArgNames == {"my-log", "other-log"}

LogInit ==
    /\ logLevel = [n \in Loggers |-> IF n = "root" THEN WARNING ELSE NOTSET]
    /\ rootHandlers = FALSE
    /\ imported = FALSE
    /\ run = Idle
    /\ output = <<>>

LogIdle ==
    /\ logLevel = <<>>
    /\ rootHandlers = FALSE
    /\ imported = FALSE
    /\ run = Idle
    /\ output = <<>>

At(cell, k) == run.cell = cell /\ run.pc = k
Goto(k) == run' = [run EXCEPT !.pc = k]
Finish == run' = [run EXCEPT !.pc = 0]

\* The debug_logging cell is submitted: import logging, def my_function.
RunDebugLoggingCell ==
    /\ run.pc = 0
    /\ \E level \in ArgLevels :
          run' = [cell |-> "debug_logging", pc |-> 1, level |-> level,
                  name |-> "root", old_level |-> NOTSET]
    /\ imported' = TRUE
    /\ output' = <<>>
    /\ UNCHANGED <<logLevel, rootHandlers, notLog>>

\* my_function(), at its three places in the cell.
CallMyFunction ==
    /\ \E k \in {1, 4, 7} :
          At("debug_logging", k) /\ IF k = 7 THEN Finish ELSE Goto(k + 1)
    /\ rootHandlers' = TRUE
    /\ output' = output \o my_function(logLevel)
    /\ UNCHANGED <<logLevel, imported, notLog>>

\* with debug_logging(level): the generator runs up to its yield.
debug_logging_enter ==
    /\ At("debug_logging", 2)
    /\ run' = [run EXCEPT !.pc = 3,
                          !.old_level = getEffectiveLevel(logLevel, "root")]
    /\ logLevel' = setLevel(logLevel, "root", run.level)
    /\ UNCHANGED <<rootHandlers, imported, output, notLog>>

\* logging.info('Inside')
LogInside ==
    /\ At("debug_logging", 3)
    /\ Goto(4)
    /\ rootHandlers' = TRUE
    /\ output' = output \o ModuleLog(logLevel, INFO, "Inside")
    /\ UNCHANGED <<logLevel, imported, notLog>>

\* The with block ends: the generator resumes into its finally clause.
debug_logging_exit ==
    /\ At("debug_logging", 5)
    /\ Goto(6)
    /\ logLevel' = setLevel(logLevel, "root", run.old_level)
    /\ UNCHANGED <<rootHandlers, imported, output, notLog>>

\* logging.warning('After')
LogAfter ==
    /\ At("debug_logging", 6)
    /\ Goto(7)
    /\ rootHandlers' = TRUE
    /\ output' = output \o ModuleLog(logLevel, WARNING, "After")
    /\ UNCHANGED <<logLevel, imported, notLog>>

\* The log_level cell is submitted.  Its with statement evaluates
\* logging.DEBUG first: a NameError ends the cell when the debug_logging
\* cell, which imports logging, has not run.
RunLogLevelCell ==
    /\ run.pc = 0
    /\ output' = <<>>
    /\ IF imported
       THEN \E level \in ArgLevels, name \in ArgNames :
               run' = [cell |-> "log_level", pc |-> 1, level |-> level,
                       name |-> name, old_level |-> NOTSET]
       ELSE run' = [Idle EXCEPT !.cell = "NameError"]
    /\ UNCHANGED <<logLevel, rootHandlers, imported, notLog>>

\* A faulty variant of log_level_enter: old_level is read after setLevel.
log_level_enter_old_after_set ==
    /\ At("log_level", 1)
    /\ logLevel' = setLevel(logLevel, run.name, run.level)
    /\ run' = [run EXCEPT !.pc = 2,
                          !.old_level = getEffectiveLevel(logLevel', run.name)]
    /\ UNCHANGED <<rootHandlers, imported, output, notLog>>

\* with log_level(level, name) as logger: the generator runs up to its yield.
log_level_enter ==
    /\ At("log_level", 1)
    /\ run' = [run EXCEPT !.pc = 2,
                          !.old_level = getEffectiveLevel(logLevel, run.name)]
    /\ logLevel' = setLevel(logLevel, run.name, run.level)
    /\ UNCHANGED <<rootHandlers, imported, output, notLog>>

\* logger.debug('This is my message'), on the logger the with statement bound.
LogMyMessage ==
    /\ At("log_level", 2)
    /\ Goto(3)
    /\ output' = output \o
          LoggerLog(logLevel, rootHandlers, run.name, DEBUG, "This is my message")
    /\ UNCHANGED <<logLevel, rootHandlers, imported, notLog>>

\* logging.debug('This will not print')
LogWillNotPrint ==
    /\ At("log_level", 3)
    /\ Goto(4)
    /\ rootHandlers' = TRUE
    /\ output' = output \o ModuleLog(logLevel, DEBUG, "This will not print")
    /\ UNCHANGED <<logLevel, imported, notLog>>

\* The with block ends: the generator resumes into its finally clause.
log_level_exit ==
    /\ At("log_level", 4)
    /\ Goto(5)
    /\ logLevel' = setLevel(logLevel, run.name, run.old_level)
    /\ UNCHANGED <<rootHandlers, imported, output, notLog>>

\* logger = logging.getLogger('my-log'); logger.debug('Debug will not print')
LogDebugAfter ==
    /\ At("log_level", 5)
    /\ Goto(6)
    /\ output' = output \o
          LoggerLog(logLevel, rootHandlers, "my-log", DEBUG, "Debug will not print")
    /\ UNCHANGED <<logLevel, rootHandlers, imported, notLog>>

\* logger.error('Error will print')
LogErrorAfter ==
    /\ At("log_level", 6)
    /\ Finish
    /\ output' = output \o
          LoggerLog(logLevel, rootHandlers, "my-log", ERROR, "Error will print")
    /\ UNCHANGED <<logLevel, rootHandlers, imported, notLog>>

LogNext ==
    \/ RunDebugLoggingCell
    \/ CallMyFunction
    \/ debug_logging_enter
    \/ LogInside
    \/ debug_logging_exit
    \/ LogAfter
    \/ RunLogLevelCell
    \/ log_level_enter
    \/ LogMyMessage
    \/ LogWillNotPrint
    \/ log_level_exit
    \/ LogDebugAfter
    \/ LogErrorAfter

(***************************************************************************)
(* Item 15: the sort_priority functions (Functions.ipynb).  list.sort(key) *)
(* calls the key function once on every element, from the first to the    *)
(* last, and then sorts the elements by their keys, stably.  A key is the  *)
(* tuple the helper returns; tuples compare item by item.  A helper also   *)
(* reads and writes the `found` of the scope it can reach.                 *)
(***************************************************************************)
Nums == 0..MaxNum

\* Python's True, False and None.
PyBool(b) == IF b THEN "True" ELSE "False"

\* (a0, a1) < (b0, b1) and (a0, a1) <= (b0, b1)
TupleLess(a, b) == a[1] < b[1] \/ (a[1] = b[1] /\ a[2] < b[2])
TupleLeq(a, b) == ~TupleLess(b, a)

\* A faulty variant of helper: the two tuples are swapped.
helper_swapped(x, grp) == IF x \in grp THEN <<1, x>> ELSE <<0, x>>

\* helper(x) of sort_priority: the key of x.
helper(x, grp) == IF x \in grp THEN <<0, x>> ELSE <<1, x>>

\* helper(x) of sort_priority2: `found = True` defines a variable of the
\* helper's own scope; the found of sort_priority2 keeps its value.
helper2(x, grp, fnd) == [key |-> helper(x, grp), found |-> fnd]

\* A faulty variant of helper3: the flag is set in the other branch.
helper3_wrong_branch(x, grp, fnd) ==
    [key |-> helper(x, grp), found |-> IF x \in grp THEN fnd ELSE "True"]

\* helper(x) of sort_priority3: `nonlocal found` makes the assignment reach
\* the found of sort_priority3.
helper3(x, grp, fnd) ==
    [key |-> helper(x, grp), found |-> IF x \in grp THEN "True" ELSE fnd]

\* Sorter.__call__(x): the flag is the attribute self.found.
Sorter_call(x, grp, fnd) ==
    [key |-> helper(x, grp), found |-> IF x \in grp THEN "True" ELSE fnd]

\* helper(x) of the Python 2 sort_priority: found[0] = True stores into the
\* one-element list of the enclosing scope.
helper_py2(x, grp, fnd) ==
    [key |-> helper(x, grp),
     found |-> IF x \in grp THEN [fnd EXCEPT ![1] = "True"] ELSE fnd]

\* The helper of the named function applied to x.
CallHelper(fn, x, grp, fnd) ==
    CASE fn = "sort_priority" -> [key |-> helper(x, grp), found |-> fnd]
      [] fn = "sort_priority2" -> helper2(x, grp, fnd)
      [] fn = "sort_priority3" -> helper3(x, grp, fnd)
      [] fn = "Sorter" -> Sorter_call(x, grp, fnd)
      [] fn = "sort_priority_py2" -> helper_py2(x, grp, fnd)

\* The key calls of list.sort: the <<key, element>> pairs in list order and
\* the flag after the last call.
RECURSIVE KeyCalls(_, _, _, _)
KeyCalls(fn, xs, grp, fnd) ==
    IF xs = <<>> THEN [pairs |-> <<>>, found |-> fnd]
    ELSE LET first == CallHelper(fn, xs[1], grp, fnd)
             rest == KeyCalls(fn, SubSeq(xs, 2, Len(xs)), grp, first.found)
         IN [pairs |-> <<<<first.key, xs[1]>>>> \o rest.pairs,
             found |-> rest.found]

\* One pair put into a sorted sequence of pairs, behind the pairs whose key
\* is not greater (the sort is stable).
RECURSIVE InsertPair(_, _)
InsertPair(sorted, pair) ==
    IF sorted = <<>> THEN <<pair>>
    ELSE IF TupleLeq(sorted[1][1], pair[1])
         THEN <<sorted[1]>> \o InsertPair(SubSeq(sorted, 2, Len(sorted)), pair)
         ELSE <<pair>> \o sorted

RECURSIVE SortPairs(_)
SortPairs(pairs) ==
    IF pairs = <<>> THEN <<>>
    ELSE InsertPair(SortPairs(SubSeq(pairs, 1, Len(pairs) - 1)),
                    pairs[Len(pairs)])

\* xs.sort(key=helper) in the named function: the sorted list and the flag.
ListSort(fn, xs, grp, fnd) ==
    LET keyed == KeyCalls(fn, xs, grp, fnd)
        sorted == SortPairs(keyed.pairs)
    IN [list |-> [i \in 1..Len(sorted) |-> sorted[i][2]], found |-> keyed.found]

\* def sort_priority(values, group): returns None
sort_priority(xs, grp) ==
    [list |-> ListSort("sort_priority", xs, grp, "None").list, ret |-> "None"]

\* def sort_priority2(numbers, group): found = False ... return found
sort_priority2(xs, grp) ==
    LET r == ListSort("sort_priority2", xs, grp, "False")
    IN [list |-> r.list, ret |-> r.found]

\* def sort_priority3(numbers, group): found = False ... return found
sort_priority3(xs, grp) ==
    LET r == ListSort("sort_priority3", xs, grp, "False")
    IN [list |-> r.list, ret |-> r.found]

\* sorter = Sorter(group); numbers.sort(key=sorter); sorter.found
Sorter(xs, grp) ==
    LET r == ListSort("Sorter", xs, grp, "False")
    IN [list |-> r.list, ret |-> r.found]

\* The Python 2 sort_priority: found = [False] ... return found[0]
sort_priority_py2(xs, grp) ==
    LET r == ListSort("sort_priority_py2", xs, grp, <<"False">>)
    IN [list |-> r.list, ret |-> r.found[1]]

SortInit ==
    /\ values \in SeqUpTo(Nums, MaxList)
    /\ group \in SUBSET Nums
    /\ found = "None"
    /\ called = "none"
    /\ original = values

SortIdle ==
    /\ values = <<>>
    /\ group = {}
    /\ found = "None"
    /\ called = "none"
    /\ original = <<>>

\* The result of a call is stored: the list is sorted in place.
Called(fn, r) ==
    /\ original' = values
    /\ values' = r.list
    /\ found' = r.ret
    /\ called' = fn
    /\ UNCHANGED <<group, notSort>>

CallSortPriority == Called("sort_priority", sort_priority(values, group))
CallSortPriority2 == Called("sort_priority2", sort_priority2(values, group))
CallSortPriority3 == Called("sort_priority3", sort_priority3(values, group))
CallSorter == Called("Sorter", Sorter(values, group))
CallSortPriorityPy2 == Called("sort_priority_py2", sort_priority_py2(values, group))

SortNext ==
    \/ CallSortPriority
    \/ CallSortPriority2
    \/ CallSortPriority3
    \/ CallSorter
    \/ CallSortPriorityPy2

(***************************************************************************)
(* Item 17: normalize and normalize_defensive (Functions.ipynb).  The      *)
(* argument is an object: a list or an IterContainer, for which iter()     *)
(* makes a new iterator at the first item on every call, or an iterator    *)
(* (a generator, a list iterator), for which iter() is the object itself   *)
(* and whose position only moves forward.  100 * value / total is kept as  *)
(* the exact fraction in lowest terms.                                     *)
(***************************************************************************)
NormNums == -1..MaxNum

Containers == {"list", "IterContainer"}
Iterators == {"generator", "list_iterator"}

\* An iterable object: its items and, for an iterator, how many are consumed.
Iterable(kind, items, pos) == [kind |-> kind, items |-> items, pos |-> pos]

\* iter(x) is iter(x)
IterIsSelf(x) == x.kind \in Iterators

\* One pass over iter(x), to the end: the values seen and the object after.
Drain(x) ==
    IF IterIsSelf(x)
    THEN [vals |-> SubSeq(x.items, x.pos + 1, Len(x.items)),
          obj |-> [x EXCEPT !.pos = Len(x.items)]]
    ELSE [vals |-> x.items, obj |-> x]

\* sum(xs)
RECURSIVE Sum(_)
Sum(xs) == IF xs = <<>> THEN 0 ELSE xs[1] + Sum(SubSeq(xs, 2, Len(xs)))

Abs(n) == IF n < 0 THEN -n ELSE n

RECURSIVE Gcd(_, _)
Gcd(a, b) == IF b = 0 THEN a ELSE Gcd(b, a % b)

\* 100 * value / total for total # 0: true division, as the exact fraction.
Percent(value, total) ==
    LET n == 100 * value
        g == Gcd(Abs(n), Abs(total))
        sign == IF total < 0 THEN -1 ELSE 1
    IN [num |-> sign * (n \div g), den |-> Abs(total) \div g]

\* The body of normalize after `total = sum(numbers)` has drained the first
\* pass: the loop over a second pass.  The first division by a zero total
\* raises ZeroDivisionError.
NormalizeLoop(first) ==
    LET total == Sum(first.vals)
        second == Drain(first.obj)
    IN IF second.vals # <<>> /\ total = 0
       THEN [out |-> Raise("ZeroDivisionError"), obj |-> second.obj]
       ELSE [out |-> Return(Val("list",
                        [i \in 1..Len(second.vals) |-> Percent(second.vals[i], total)])),
             obj |-> second.obj]

\* A faulty variant of normalize: the argument is copied into a list first, as
\* normalize_copy does.
normalize_copying(x) ==
    LET copy == Drain(x)
    IN [out |-> NormalizeLoop(Drain(Iterable("list", copy.vals, 0))).out,
        obj |-> copy.obj]

\* def normalize(numbers)
normalize(x) == NormalizeLoop(Drain(x))

\* A faulty variant of normalize_defensive: the test for an iterator is missing.
normalize_defensive_unchecked(x) == NormalizeLoop(Drain(x))

\* def normalize_defensive(numbers)
normalize_defensive(x) ==
    IF IterIsSelf(x)
    THEN [out |-> Raise("TypeError"), obj |-> x]
    ELSE NormalizeLoop(Drain(x))

NormInit ==
    /\ numbers \in {Iterable("list", xs, 0) : xs \in SeqUpTo(NormNums, MaxList)}
    /\ percentages = NotCalled
    /\ normalizer = "none"
    /\ before = numbers

NormIdle ==
    /\ numbers = Iterable("list", <<>>, 0)
    /\ percentages = NotCalled
    /\ normalizer = "none"
    /\ before = numbers

\* data_it = l2g(data), or iter(data): an iterator over the list.
MakeIterator ==
    /\ numbers.kind = "list"
    /\ \E kind \in Iterators : numbers' = Iterable(kind, numbers.items, 0)
    /\ UNCHANGED <<percentages, normalizer, before, notNorm>>

\* iter_container = IterContainer(data)
MakeIterContainer ==
    /\ numbers.kind = "list"
    /\ numbers' = Iterable("IterContainer", numbers.items, 0)
    /\ UNCHANGED <<percentages, normalizer, before, notNorm>>

\* percentages = normalize(numbers)
CallNormalize ==
    LET r == normalize(numbers)
    IN /\ before' = numbers
       /\ numbers' = r.obj
       /\ percentages' = r.out
       /\ normalizer' = "normalize"
       /\ UNCHANGED notNorm

\* normalize_defensive(numbers)
CallNormalizeDefensive ==
    LET r == normalize_defensive(numbers)
    IN /\ before' = numbers
       /\ numbers' = r.obj
       /\ percentages' = r.out
       /\ normalizer' = "normalize_defensive"
       /\ UNCHANGED notNorm

NormNext ==
    \/ MakeIterator
    \/ MakeIterContainer
    \/ CallNormalize
    \/ CallNormalizeDefensive

(***************************************************************************)
(* Item 20: the two decode functions (Functions.ipynb).  A dict is an      *)
(* object with an identity: a value of type dict is a reference to a place *)
(* in the heap, and `{}` allocates a new place.  The default={} of the     *)
(* first decode is evaluated once, when the function is defined.           *)
(***************************************************************************)
Ref(id) == Val("dict", <<id>>)
None == Val("NoneType", <<>>)
PyInt(n) == Val("int", <<n>>)
Omitted == Val("<omitted>", <<>>)

\* The dict made by `default={}` in the def statement of the first decode.
Decode1Default == 1

\* bool(v): None, 0 and an empty dict are false.
Truthy(h, v) ==
    CASE v.type = "NoneType" -> FALSE
      [] v.type = "int" -> v.val[1] # 0
      [] v.type = "dict" -> h[v.val[1]] # {}

\* `{}`: a new dict on the heap.
NewDict(h) == [heap |-> Append(h, {}), ref |-> Ref(Len(h) + 1)]

\* json.loads(data) for the documents of the model: '{}' is an empty object;
\* 'bad data' and 'also bad' are no JSON, a ValueError.
JsonLoads(h, d) ==
    IF d = "{}"
    THEN [ok |-> TRUE, heap |-> NewDict(h).heap, ret |-> NewDict(h).ref]
    ELSE [ok |-> FALSE, heap |-> h, ret |-> None]

\* def decode(data, default={}): the first decode.
decode1(h, d, default) ==
    LET dflt == IF default = Omitted THEN Ref(Decode1Default) ELSE default
        loaded == JsonLoads(h, d)
    IN IF loaded.ok THEN [heap |-> loaded.heap, ret |-> loaded.ret]
       ELSE [heap |-> h, ret |-> dflt]

\* A faulty variant of decode2: the default is one dict made at definition.
decode2_shared_default(h, d, default) == decode1(h, d, default)

\* def decode(data, default=None): the second decode.  `default or {}`
\* builds the new dict only when default is false.
decode2(h, d, default) ==
    LET param == IF default = Omitted THEN None ELSE default
        made == IF Truthy(h, param) THEN [heap |-> h, ref |-> param]
                ELSE NewDict(h)
        loaded == JsonLoads(made.heap, d)
    IN IF loaded.ok THEN [heap |-> loaded.heap, ret |-> loaded.ret]
       ELSE [heap |-> made.heap, ret |-> made.ref]

Documents == {"bad data", "also bad", "{}"}
Failing == {"bad data", "also bad"}

\* What a caller passes as default: nothing, None, 0, 5, or a dict of its
\* own that is empty.
Supplied == {"omitted", "None", "0", "5", "{}"}

\* The key a caller stores under, as foo['Python'] and bar['Java'] do.
KeyOf(i) == IF i = 1 THEN "Python" ELSE IF i = 2 THEN "Java" ELSE "Key"

DecodeInit ==
    /\ heap = <<{}>>
    /\ calls = <<>>

DecodeIdle ==
    /\ heap = <<>>
    /\ calls = <<>>

\* The argument a caller passes, and the heap after the caller has built it.
Argument(h, what) ==
    CASE what = "omitted" -> [heap |-> h, arg |-> Omitted]
      [] what = "None" -> [heap |-> h, arg |-> None]
      [] what = "0" -> [heap |-> h, arg |-> PyInt(0)]
      [] what = "5" -> [heap |-> h, arg |-> PyInt(5)]
      [] what = "{}" -> [heap |-> NewDict(h).heap, arg |-> NewDict(h).ref]

\* The call is recorded with what it was given and what it returned, and,
\* as history, with the number of dicts there were when the function was
\* entered and with the content the returned dict had at the return.
Record(fn, d, a, r) ==
    /\ heap' = r.heap
    /\ calls' = Append(calls,
          [fn |-> fn, data |-> d, default |-> a.arg, ret |-> r.ret,
           allocated |-> Len(a.heap),
           content |-> IF r.ret.type = "dict" THEN r.heap[r.ret.val[1]] ELSE {}])
    /\ UNCHANGED notDecode

\* foo = decode(data[, default]) with the first decode
CallDecode1 ==
    /\ Len(calls) < MaxCalls
    /\ \E d \in Documents, what \in Supplied :
          LET a == Argument(heap, what)
          IN Record("decode1", d, a, decode1(a.heap, d, a.arg))

\* foo = decode(data[, default]) with the second decode
CallDecode2 ==
    /\ Len(calls) < MaxCalls
    /\ \E d \in Documents, what \in Supplied :
          LET a == Argument(heap, what)
          IN Record("decode2", d, a, decode2(a.heap, d, a.arg))

\* foo['Python'] = 'good': a store into the dict a call returned.
StoreInto ==
    \E i \in DOMAIN calls :
        /\ calls[i].ret.type = "dict"
        /\ heap' = [heap EXCEPT ![calls[i].ret.val[1]] =
                       DictSet(@, KeyOf(i), "good")]
        /\ UNCHANGED <<calls, notDecode>>

DecodeNext ==
    \/ CallDecode1
    \/ CallDecode2
    \/ StoreInto

(***************************************************************************)
(* Item 20: the two log functions (Functions.ipynb).  A datetime is the    *)
(* number of clock ticks it stands for; datetime.now() reads the clock,    *)
(* which time.sleep and everything else that takes time move forward.      *)
(***************************************************************************)
MaxClock == 11
FirstTick == 8
MaxLogs == 3

DateTime(t) == Val("datetime", <<t>>)

\* The decimal digits of a natural number, as code points.
RECURSIVE Decimal(_)
Decimal(n) ==
    IF n < 10 THEN <<48 + n>> ELSE Decimal(n \div 10) \o <<48 + (n % 10)>>

\* str(x) of a datetime, or of None.
Str(x) ==
    IF x = None THEN Val("str", <<78, 111, 110, 101>>)
    ELSE Val("str", Decimal(x.val[1]))

\* print(f'{when}: {message}'): the line that goes to stdout.
Print_line(when, message) ==
    Val("str", Str(when).val \o <<58, 32>> \o message.val)

\* The value a parameter is bound to: the argument, or the default the
\* function object holds when the caller gives none.
Bind(arg, default) == IF arg = Omitted THEN default ELSE arg

\* def log(message, when=datetime.now()), the first log
log1(message, when, now) == Print_line(when, message)

\* A faulty variant of the second log: None is printed as it comes.
log2_when_kept(message, when, now) == Print_line(when, message)

\* def log(message, when=None), the second log
log2(message, when, now) ==
    LET w == IF when = None THEN now ELSE when
    IN Print_line(w, message)

\* 'Hi there' and 'Hey there2'
HiThere == Val("str", <<72, 105, 32, 116, 104, 101, 114, 101>>)
HeyThere2 == Val("str", <<72, 101, 121, 32, 116, 104, 101, 114, 101, 50>>)

\* What a caller passes as `when`: nothing, a datetime of the past or one of
\* the future.
Whens == {Omitted, DateTime(FirstTick - 1), DateTime(MaxClock)}

\* The def statement of the first log has run, and evaluated its default.
StampInit ==
    /\ clock \in FirstTick .. FirstTick + 1
    /\ when_default = DateTime(clock)
    /\ printed = <<>>

StampIdle ==
    /\ clock = 0
    /\ when_default = NoValue
    /\ printed = <<>>

\* sleep(0.1), or any other passing of time
Sleep ==
    /\ clock < MaxClock
    /\ clock' = clock + 1
    /\ UNCHANGED <<when_default, printed, notStamp>>

\* log('Hi there'[, when]) with the first log
CallLog1 ==
    /\ Len(printed) < MaxLogs
    /\ \E w \in Whens :
          printed' = Append(printed,
              [fn |-> "log1", when |-> w, at |-> clock,
               line |-> log1(HiThere, Bind(w, when_default), DateTime(clock))])
    /\ UNCHANGED <<clock, when_default, notStamp>>

\* log('Hey there2'[, when]) with the second log
CallLog2 ==
    /\ Len(printed) < MaxLogs
    /\ \E w \in Whens :
          printed' = Append(printed,
              [fn |-> "log2", when |-> w, at |-> clock,
               line |-> log2(HeyThere2, Bind(w, None), DateTime(clock))])
    /\ UNCHANGED <<clock, when_default, notStamp>>

StampNext ==
    \/ Sleep
    \/ CallLog1
    \/ CallLog2

(***************************************************************************)
(* Item 13: divide_json (Pythonic-Thinking.ipynb).  The text of a file is  *)
(* a sequence of tokens: punctuation, white space, strings and numbers;    *)
(* one token is one unit of length.  A float is the exact fraction         *)
(* <<numerator, denominator>>.  A loaded JSON object is the sequence of    *)
(* its <<key, value>> pairs, in the order of the text.                     *)
(***************************************************************************)
MaxOperand == 2

\* The tokens of JSON punctuation, and a blank.
Token ==
    [LBrace |-> Val("punct", <<123>>), RBrace |-> Val("punct", <<125>>),
     LBracket |-> Val("punct", <<91>>), RBracket |-> Val("punct", <<93>>),
     Colon |-> Val("punct", <<58>>), Comma |-> Val("punct", <<44>>),
     Space |-> Val("space", <<32>>)]

\* 'numerator', 'denominator' and 'result'
Numerator == Val("str", <<110, 117, 109, 101, 114, 97, 116, 111, 114>>)
Denominator == Val("str", <<100, 101, 110, 111, 109, 105, 110, 97, 116, 111, 114>>)
Result == Val("str", <<114, 101, 115, 117, 108, 116>>)

\* UNDEFINED = object()
UNDEFINED == Val("object", <<>>)

IsScalar(t) == t.type \in {"int", "float", "str"}

\* op[key] = v on the pairs of a dict: a key that is there keeps its place.
SetItem(pairs, key, v) ==
    IF \E i \in DOMAIN pairs : pairs[i][1] = key
    THEN [i \in DOMAIN pairs |->
             IF pairs[i][1] = key THEN <<key, v>> ELSE pairs[i]]
    ELSE Append(pairs, <<key, v>>)

\* The members between the braces of a JSON object: "key": value, ...
WellFormed(inner) ==
    \/ inner = <<>>
    \/ /\ Len(inner) % 4 = 3
       /\ \A i \in DOMAIN inner :
             CASE i % 4 = 1 -> inner[i].type = "str"
               [] i % 4 = 2 -> inner[i] = Token.Colon
               [] i % 4 = 3 -> IsScalar(inner[i])
               [] OTHER -> inner[i] = Token.Comma

RECURSIVE ObjectOf(_, _)
ObjectOf(inner, pairs) ==
    IF inner = <<>> THEN pairs
    ELSE ObjectOf(SubSeq(inner, 5, Len(inner)),
                  SetItem(pairs, inner[1], inner[3]))

\* json.loads(data): a scalar, the empty array or an object of scalars;
\* anything else is not JSON here (json.JSONDecodeError, a ValueError).
json_loads(text) ==
    LET toks == SelectSeq(text, LAMBDA t : t # Token.Space)
        n == Len(toks)
    IN IF n = 1 /\ IsScalar(toks[1]) THEN Return(toks[1])
       ELSE IF toks = <<Token.LBracket, Token.RBracket>>
       THEN Return(Val("list", <<>>))
       ELSE IF /\ n >= 2
               /\ toks[1] = Token.LBrace
               /\ toks[n] = Token.RBrace
               /\ WellFormed(SubSeq(toks, 2, n - 1))
       THEN Return(Val("dict", ObjectOf(SubSeq(toks, 2, n - 1), <<>>)))
       ELSE Raise("ValueError")

RECURSIVE MembersOf(_)
MembersOf(pairs) ==
    IF pairs = <<>> THEN <<>>
    ELSE <<pairs[1][1], Token.Colon, pairs[1][2]>>
         \o (IF Len(pairs) = 1 THEN <<>> ELSE <<Token.Comma>>)
         \o MembersOf(Tail(pairs))

\* json.dumps(op) of a dict of scalars
json_dumps(op) == <<Token.LBrace>> \o MembersOf(op.val) \o <<Token.RBrace>>

\* op[key]
GetItem(op, key) ==
    IF op.type # "dict" THEN Raise("TypeError")
    ELSE IF \E i \in DOMAIN op.val : op.val[i][1] = key
    THEN Return(op.val[CHOOSE i \in DOMAIN op.val : op.val[i][1] = key][2])
    ELSE Raise("KeyError")

\* a / b
TrueDiv(a, b) ==
    LET IsNumber(x) == x.type \in {"int", "float"}
        Num(x) == x.val[1]
        Den(x) == IF x.type = "float" THEN x.val[2] ELSE 1
        n == Num(a) * Den(b)
        d == Den(a) * Num(b)
    IN IF ~IsNumber(a) \/ ~IsNumber(b) THEN Raise("TypeError")
       ELSE IF Num(b) = 0 THEN Raise("ZeroDivisionError")
       ELSE Return(Val("float", <<n \div Gcd(n, d), d \div Gcd(n, d)>>))

\* handle.seek(0); handle.write(result): the text is written over the
\* beginning of the file, and what the file holds beyond it stays.
WriteOver(old, new) == new \o SubSeq(old, Len(new) + 1, Len(old))

\* A faulty variant of try_block: a division by zero gives 0.0.
try_block_zero_quotient(text, readable) ==
    LET loaded == json_loads(text)
        numerator == GetItem(loaded.value, Numerator)
        denominator == GetItem(loaded.value, Denominator)
        quotient == TrueDiv(numerator.value, denominator.value)
    IN IF ~readable THEN [op |-> NoValue, out |-> Raise("OSError")]
       ELSE IF loaded.kind = "raise" THEN [op |-> NoValue, out |-> loaded]
       ELSE IF numerator.kind = "raise"
       THEN [op |-> loaded.value, out |-> numerator]
       ELSE IF denominator.kind = "raise"
       THEN [op |-> loaded.value, out |-> denominator]
       ELSE [op |-> loaded.value,
             out |-> IF quotient.exc = "ZeroDivisionError"
                     THEN Return(Val("float", <<0, 1>>)) ELSE quotient]

\* The try block: handle.read(), json.loads(data) and the division.  It
\* leaves op, when it was bound, and the value or the exception raised.
try_block(text, readable) ==
    LET loaded == json_loads(text)
        numerator == GetItem(loaded.value, Numerator)
        denominator == GetItem(loaded.value, Denominator)
    IN IF ~readable THEN [op |-> NoValue, out |-> Raise("OSError")]
       ELSE IF loaded.kind = "raise" THEN [op |-> NoValue, out |-> loaded]
       ELSE IF numerator.kind = "raise"
       THEN [op |-> loaded.value, out |-> numerator]
       ELSE IF denominator.kind = "raise"
       THEN [op |-> loaded.value, out |-> denominator]
       ELSE [op |-> loaded.value,
             out |-> TrueDiv(numerator.value, denominator.value)]

NoFile == [exists |-> FALSE, text |-> <<>>]
File(text) == [exists |-> TRUE, text |-> text]

NoFrame ==
    [pc |-> "idle", read |-> FALSE, op |-> NoValue, value |-> NoValue,
     pending |-> NotCalled]

\* The values the files hold for a numerator or a denominator: small
\* integers and the string '1'.
Operands == {PyInt(n) : n \in 0 .. MaxOperand} \cup {Val("str", <<49>>)}

\* The JSON objects of the files: with or without a numerator, a
\* denominator and the result of an earlier run.
Objects ==
    LET Maybe(key, S) == {<<>>} \cup {<< <<key, v>> >> : v \in S}
    IN {n \o d \o r : n \in Maybe(Numerator, Operands),
                      d \in Maybe(Denominator, Operands),
                      r \in Maybe(Result, {Val("float", <<1, 2>>)})}

\* The same object written with white space, an array, a number, a text
\* that breaks off, and an empty file.
OtherTexts ==
    LET T == Token
    IN { <<T.LBrace, T.Space, T.Space, Numerator, T.Colon, PyInt(1), T.Comma,
           T.Space, T.Space, Denominator, T.Colon, PyInt(2), T.Space,
           T.RBrace>>,
         <<T.LBrace, Numerator, T.Colon, PyInt(1), T.Comma, Denominator,
           T.Colon, PyInt(0), T.RBrace, T.Space>>,
         <<T.LBracket, T.RBracket>>,
         <<PyInt(1)>>,
         <<T.LBrace, Numerator>>,
         <<>> }

Files ==
    {NoFile} \cup {File(json_dumps(Val("dict", o))) : o \in Objects}
             \cup {File(t) : t \in OtherTexts}

DivideInit ==
    /\ file \in Files
    /\ handle = "none"
    /\ frame = NoFrame
    /\ finished = NotCalled
    /\ opened = file

DivideIdle ==
    /\ file = NoFile
    /\ handle = "none"
    /\ frame = NoFrame
    /\ finished = NotCalled
    /\ opened = NoFile

\* divide_json(path) is called: handle = open(path, 'r+'), which raises
\* FileNotFoundError when there is no file.
Open ==
    /\ frame.pc = "idle"
    /\ opened' = file
    /\ IF file.exists
       THEN /\ handle' = "open"
            /\ frame' = [NoFrame EXCEPT !.pc = "try"]
            /\ finished' = NotCalled
       ELSE /\ handle' = "none"
            /\ frame' = NoFrame
            /\ finished' = Raise("FileNotFoundError")
    /\ UNCHANGED <<file, notDivide>>

\* try: the block runs, and leaves for the except clause, the else block
\* or, with any other exception, the finally block.
Try ==
    /\ frame.pc = "try"
    /\ \E readable \in BOOLEAN :
          LET done == try_block(file.text, readable)
          IN frame' = [pc |-> IF done.out.kind = "return" THEN "else"
                              ELSE IF done.out.exc = "ZeroDivisionError"
                              THEN "except" ELSE "finally",
                       read |-> readable,
                       op |-> done.op,
                       value |-> done.out.value,
                       pending |-> IF done.out.kind = "return" THEN NotCalled
                                   ELSE done.out]
    /\ UNCHANGED <<file, handle, finished, opened, notDivide>>

\* except ZeroDivisionError as e: return UNDEFINED
Except ==
    /\ frame.pc = "except"
    /\ frame' = [frame EXCEPT !.pc = "finally", !.pending = Return(UNDEFINED)]
    /\ UNCHANGED <<file, handle, finished, opened, notDivide>>

\* else: op['result'] = value; result = json.dumps(op); handle.seek(0);
\* handle.write(result); return value.  A write that fails raises OSError
\* and leaves the file with none or with a part of the text written.
Else ==
    /\ frame.pc = "else"
    /\ LET op == Val("dict", SetItem(frame.op.val, Result, frame.value))
           result == json_dumps(op)
       IN \/ /\ file' = File(WriteOver(file.text, result))
             /\ frame' = [frame EXCEPT !.pc = "finally", !.op = op,
                                       !.pending = Return(frame.value)]
          \/ /\ \E n \in {0, Len(result) \div 2} :
                   file' = File(WriteOver(file.text, SubSeq(result, 1, n)))
             /\ frame' = [frame EXCEPT !.pc = "finally", !.op = op,
                                       !.pending = Raise("OSError")]
    /\ UNCHANGED <<handle, finished, opened, notDivide>>

\* A faulty variant of Finally: the handle is closed on a return only.
Finally_close_on_return ==
    /\ frame.pc = "finally"
    /\ handle' = IF frame.pending.kind = "return" THEN "closed" ELSE handle
    /\ finished' = frame.pending
    /\ frame' = [frame EXCEPT !.pc = "idle"]
    /\ UNCHANGED <<file, opened, notDivide>>

\* finally: handle.close(); then the return or the exception goes on.
Finally ==
    /\ frame.pc = "finally"
    /\ handle' = "closed"
    /\ finished' = frame.pending
    /\ frame' = [frame EXCEPT !.pc = "idle"]
    /\ UNCHANGED <<file, opened, notDivide>>

DivideNext ==
    \/ Open
    \/ Try
    \/ Except
    \/ Else
    \/ Finally

(***************************************************************************)
(* Item 51: my_module and the try statement of its caller                  *)
(* (Collaboration.ipynb).  An exception is its class and its message.      *)
(***************************************************************************)
MaxVolume == 4
MaxDensity == 3
MaxErrors == 3

\* The base class of each exception class: class Error(Exception), class
\* InvalidDensityError(Error), and the built-in ValueError.
Base(cls) ==
    CASE cls = "InvalidDensityError" -> "Error"
      [] cls = "Error" -> "Exception"
      [] cls = "ValueError" -> "Exception"
      [] cls = "Exception" -> "BaseException"
      [] OTHER -> "object"

\* issubclass(cls, base): what an except clause tests.
RECURSIVE issubclass(_, _)
issubclass(cls, base) ==
    \/ cls = base
    \/ cls # "object" /\ issubclass(Base(cls), base)

Exc(cls, msg) == [type |-> cls, msg |-> msg]
NoExc == Exc("", "")

\* def determine_weight(volume, density): the body that follows the check is
\* left out in the source, so a call that passes the check returns None.
determine_weight(volume, density) ==
    IF density <= 0
    THEN [kind |-> "raise", exc |-> Exc("ValueError", "Density must be positive"),
          value |-> NoValue]
    ELSE [kind |-> "return", exc |-> NoExc, value |-> None]

\* logging.error(msg, e): the line written.
ErrorLine(msg, e) == [msg |-> msg, arg |-> e.msg]

WeightInit ==
    /\ args = <<>>
    /\ in_flight = NoExc
    /\ weight = NotCalled
    /\ errors = <<>>

WeightIdle ==
    /\ args = <<>>
    /\ in_flight = NoExc
    /\ weight = NotCalled
    /\ errors = <<>>

\* try: weight = my_module.determine_weight(volume, density)
TryDetermineWeight ==
    /\ in_flight = NoExc
    /\ Len(errors) < MaxErrors
    /\ \E volume \in 0 .. MaxVolume, density \in -MaxDensity .. MaxDensity :
          LET done == determine_weight(volume, density)
          IN /\ args' = <<volume, density>>
             /\ in_flight' = done.exc
             /\ weight' = IF done.kind = "return" THEN Return(done.value)
                          ELSE NotCalled
    /\ UNCHANGED <<errors, notWeight>>

\* The except clauses, tried in their order: except my_module.Error logs
\* 'Unexpected error: %s'; except Exception logs 'Bug in the API code: %s'
\* and raises the exception again.
ExceptClauses ==
    /\ in_flight # NoExc
    /\ IF issubclass(in_flight.type, "Error")
       THEN /\ errors' = Append(errors, ErrorLine("Unexpected error: %s", in_flight))
            /\ weight' = NotCalled
       ELSE IF issubclass(in_flight.type, "Exception")
       THEN /\ errors' = Append(errors, ErrorLine("Bug in the API code: %s", in_flight))
            /\ weight' = Raise(in_flight.type)
       ELSE /\ errors' = errors
            /\ weight' = Raise(in_flight.type)
    /\ in_flight' = NoExc
    /\ UNCHANGED <<args, notWeight>>

WeightNext ==
    \/ TryDetermineWeight
    \/ ExceptClauses

(***************************************************************************)
(* The specifications, one for every item.                                 *)
(***************************************************************************)
InitToStr == Item56Init /\ LockIdle /\ PickleIdle /\ LogIdle /\ SortIdle /\ NormIdle
    /\ DecodeIdle /\ StampIdle /\ DivideIdle /\ WeightIdle
SpecToStr == InitToStr /\ [][Item56Next]_vars

InitLock == LockInit /\ Item56Idle /\ PickleIdle /\ LogIdle /\ SortIdle /\ NormIdle
    /\ DecodeIdle /\ StampIdle /\ DivideIdle /\ WeightIdle
SpecLock == InitLock /\ [][LockNext]_vars

InitPickle == PickleInit /\ Item56Idle /\ LockIdle /\ LogIdle /\ SortIdle /\ NormIdle
    /\ DecodeIdle /\ StampIdle /\ DivideIdle /\ WeightIdle
SpecPickle == InitPickle /\ [][PickleNext]_vars

InitLog == LogInit /\ Item56Idle /\ LockIdle /\ PickleIdle /\ SortIdle /\ NormIdle
    /\ DecodeIdle /\ StampIdle /\ DivideIdle /\ WeightIdle
SpecLog == InitLog /\ [][LogNext]_vars

InitSort == SortInit /\ Item56Idle /\ LockIdle /\ PickleIdle /\ LogIdle /\ NormIdle
    /\ DecodeIdle /\ StampIdle /\ DivideIdle /\ WeightIdle
SpecSort == InitSort /\ [][SortNext]_vars

InitNorm == NormInit /\ Item56Idle /\ LockIdle /\ PickleIdle /\ LogIdle /\ SortIdle
    /\ DecodeIdle /\ StampIdle /\ DivideIdle /\ WeightIdle
SpecNorm == InitNorm /\ [][NormNext]_vars

InitDecode == DecodeInit /\ Item56Idle /\ LockIdle /\ PickleIdle /\ LogIdle /\ SortIdle
    /\ NormIdle /\ StampIdle /\ DivideIdle /\ WeightIdle
SpecDecode == InitDecode /\ [][DecodeNext]_vars

EarlierIdle ==
    /\ Item56Idle /\ LockIdle /\ PickleIdle /\ LogIdle
    /\ SortIdle /\ NormIdle /\ DecodeIdle

InitStamp == StampInit /\ EarlierIdle /\ DivideIdle /\ WeightIdle
SpecStamp == InitStamp /\ [][StampNext]_vars

InitDivide == DivideInit /\ EarlierIdle /\ StampIdle /\ WeightIdle
SpecDivide == InitDivide /\ [][DivideNext]_vars

InitWeight == WeightInit /\ EarlierIdle /\ StampIdle /\ DivideIdle
SpecWeight == InitWeight /\ [][WeightNext]_vars

(***************************************************************************)
(* The claims.                                                             *)
(***************************************************************************)

\* str.encode('utf-8') of a sequence of code points (no surrogates): what
\* "decoded as UTF-8" is measured against.
RECURSIVE Utf8Encode(_)
Utf8Encode(cps) ==
    IF cps = <<>> THEN <<>>
    ELSE LET c == cps[1]
             head == IF c < 128 THEN <<c>>
                     ELSE IF c < 2048 THEN
                         <<192 + (c \div 64), 128 + (c % 64)>>
                     ELSE IF c < 65536 THEN
                         <<224 + (c \div 4096), 128 + ((c \div 64) % 64),
                           128 + (c % 64)>>
                     ELSE <<240 + (c \div 262144), 128 + ((c \div 4096) % 64),
                            128 + ((c \div 64) % 64), 128 + (c % 64)>>
         IN head \o Utf8Encode(SubSeq(cps, 2, Len(cps)))

\* The call returned the str whose UTF-8 encoding is the bytes it was given.
ReturnedDecoded ==
    /\ outcome.kind = "return"
    /\ outcome.value.type = "str"
    /\ Utf8Encode(outcome.value.val) = data.val

\* Some text over the model's characters encodes to the bytes given.
IsEncodedText ==
    \E s \in SeqUpTo(CharAlphabet \cup {101, 108, 111}, Len(data.val)) :
        Utf8Encode(s) = data.val

\* C1 as stated: to_str returns a str unchanged, returns bytes decoded as
\* UTF-8, raises TypeError for every other type and never returns a value
\* that is not a str.
C1_ToStrAsStated ==
    outcome.kind # "none" =>
        /\ data.type = "str" => outcome = Return(data)
        /\ data.type = "bytes" => ReturnedDecoded
        /\ data.type \notin {"str", "bytes"} => outcome = Raise("TypeError")
        /\ outcome.kind = "return" => outcome.value.type = "str"

\* C1 as amended: to_str returns a str unchanged; for bytes it returns the
\* decoded text when the bytes are well-formed UTF-8 and raises
\* UnicodeDecodeError (not TypeError) when they are not; it raises TypeError
\* for every other type and never returns a value that is not a str.
C1_ToStr ==
    outcome.kind # "none" =>
        /\ data.type = "str" => outcome = Return(data)
        /\ data.type = "bytes" =>
              \/ ReturnedDecoded
              \/ outcome = Raise("UnicodeDecodeError") /\ ~IsEncodedText
        /\ data.type \notin {"str", "bytes"} => outcome = Raise("TypeError")
        /\ outcome.kind = "return" => outcome.value.type = "str"

\* C1 witness: bytes holding a two-byte and a one-byte character were decoded.
C1_Witness ==
    /\ data = Val("bytes", <<195, 169, 104>>)
    /\ outcome = Return(Val("str", <<233, 104>>))

\* The threads between acquiring the lock and releasing it.
InBody == {t \in Threads : pc[t] \in {"with_body", "try"}}
AtRelease == {t \in Threads : pc[t] \in {"__exit__", "finally"}}

\* C2: in the with form and in the acquire/try/finally form alike, the lock
\* is held from the start of the body until the statement has ended, at most
\* one thread is inside a body at any time, a thread that has finished (its
\* body completed or raised) no longer holds the lock, and the lock is free
\* once all threads have finished.
C2_LockForms ==
    /\ \A t \in InBody \cup AtRelease : locked
    /\ Cardinality(InBody \cup AtRelease) <= 1
    /\ InBody \cup AtRelease = {} => ~locked
    /\ (\A t \in Threads : pc[t] = "done") => ~locked

\* C2 witness: every thread has finished, one in each form had its body
\* raise, and another thread in the with form completed its body.
C2_Witness ==
    /\ \A t \in Threads : pc[t] = "done"
    /\ \E t \in Threads : form[t] = "with" /\ exc[t]
    /\ \E t \in Threads : form[t] = "try" /\ exc[t]
    /\ \E t \in Threads : ~exc[t]

\* The attribute of an object's __dict__, or "<missing>".
Attr(d, k) == IF DictHas(d, k) THEN DictGet(d, k) ELSE "<missing>"

\* C3: pickle.loads(pickle.dumps(state)) is a GameState whose level, lives
\* and points are those the object had when it was serialized, and which has
\* no version attribute: every pickle.loads step ends in such an object.
C3_PickleRoundTrip ==
    [][Loads =>
          /\ state_after'.kind = "return"
          /\ ~DictHas(state_after'.obj, "version")
          /\ \A k \in {"level", "lives", "points"} :
                Attr(state_after'.obj, k) = Attr(dumped, k)]_vars

\* C3 witness: an object with other than the default level, lives and points,
\* already carrying the version of an earlier dumps, was serialized and
\* restored.
C3_Witness ==
    /\ state_after = Object({<<"level", 1>>, <<"lives", 0>>, <<"points", 2000>>})
    /\ DictHas(dumped, "version")
    /\ \A k \in {"level", "lives", "points"} :
          Attr(dumped, k) = Attr(state_after.obj, k)
    /\ serialized.args = state

\* The record is among those the cell run last has emitted.
Emitted(name, level, msg) ==
    \E i \in DOMAIN output :
        output[i] = [logger |-> name, level |-> level, msg |-> msg]

\* The statements of the cell that have been executed.
Executed == {j \in 1..6 : run.pc = 0 \/ j < run.pc}

\* C4: in the run of `with log_level(logging.DEBUG, 'my-log') as logger`, the
\* debug message sent to the yielded logger inside the block is emitted and
\* the one sent through the root logger is not; after the block, the debug
\* message sent to the 'my-log' logger is not emitted and the error message
\* is.
C4_LogLevel ==
    (run.cell = "log_level" /\ run.level = DEBUG /\ run.name = "my-log") =>
        /\ 2 \in Executed <=> Emitted("my-log", DEBUG, "This is my message")
        /\ ~Emitted("root", DEBUG, "This will not print")
        /\ ~Emitted("my-log", DEBUG, "Debug will not print")
        /\ 6 \in Executed <=> Emitted("my-log", ERROR, "Error will print")
        /\ run.pc \in {2, 3, 4} => logLevel["my-log"] = DEBUG
        /\ run.pc \in {5, 6, 0} => getEffectiveLevel(logLevel, "my-log") = WARNING

\* C4 witness: the cell has run to its end and has emitted just the debug
\* message of the block and the error message after it.
C4_Witness ==
    /\ run.cell = "log_level" /\ run.level = DEBUG /\ run.name = "my-log"
    /\ run.pc = 0
    /\ output = <<[logger |-> "my-log", level |-> DEBUG, msg |-> "This is my message"],
                  [logger |-> "my-log", level |-> ERROR, msg |-> "Error will print"]>>

\* How often x occurs in the list xs.
Count(xs, x) == Cardinality({i \in DOMAIN xs : xs[i] = x})

\* C5: after sort_priority(values, group), values is a permutation of what
\* it was, every element that is in group precedes every element that is
\* not, and each of the two segments is in ascending order.
C5_SortPriority ==
    called = "sort_priority" =>
        /\ Len(values) = Len(original)
        /\ \A x \in Nums : Count(values, x) = Count(original, x)
        /\ \A i, j \in DOMAIN values :
              (values[i] \in group /\ values[j] \notin group) => i < j
        /\ \A i, j \in DOMAIN values :
              (i < j /\ (values[i] \in group <=> values[j] \in group))
                  => values[i] <= values[j]

\* C5 witness: a list that had an element outside the group in front of a
\* larger element and of an element of the group has been sorted.
C5_Witness ==
    /\ called = "sort_priority"
    /\ original = <<1, 2, 0>>
    /\ group = {2}
    /\ values = <<2, 0, 1>>

IteratorGivesNothing ==
    before.kind \in Iterators =>
        /\ percentages = Return(Val("list", <<>>))
        /\ numbers.pos = Len(numbers.items)

\* The call returned one percentage for every item of the argument, each
\* 100 * value / total.
OnePercentagePerValue ==
    /\ percentages.kind = "return"
    /\ Len(percentages.value.val) = Len(before.items)
    /\ \A i \in DOMAIN before.items :
          LET p == percentages.value.val[i]
          IN p.den > 0 /\ p.num * Sum(before.items) = 100 * before.items[i] * p.den

\* C7 as stated: normalize called with a one-shot iterator or generator
\* returns an empty list and raises no error; called with a list of the
\* same values it returns one percentage per value.
C7_NormalizeAsStated ==
    normalizer = "normalize" =>
        /\ IteratorGivesNothing
        /\ before.kind = "list" => OnePercentagePerValue

\* C7 as amended: normalize called with a one-shot iterator or generator
\* returns an empty list and raises no error; called with a list of the
\* same values it returns one percentage per value when the values do not
\* sum to zero (or the list is empty), and raises ZeroDivisionError when a
\* list that is not empty sums to zero.
C7_Normalize ==
    normalizer = "normalize" =>
        /\ IteratorGivesNothing
        /\ before.kind = "list" =>
              IF before.items # <<>> /\ Sum(before.items) = 0
              THEN percentages = Raise("ZeroDivisionError")
              ELSE OnePercentagePerValue

\* C7 witness: a generator that had all of its values, 1 and -1 (they sum to
\* zero), still to give was handed to normalize, which returned [].
C7_Witness ==
    /\ normalizer = "normalize"
    /\ before = Iterable("generator", <<1, -1>>, 0)
    /\ percentages = Return(Val("list", <<>>))

FailedOmitted(fn) ==
    {i \in DOMAIN calls :
        calls[i].fn = fn /\ calls[i].data \in Failing /\ calls[i].default = Omitted}

\* The dict the call i returned, as it is now.
Returned(i) == heap[calls[i].ret.val[1]]

\* A store has been made through the result of call i.
StoredThrough(i) == DictHas(Returned(i), KeyOf(i))

\* C9: with the second decode every failing call that omits default returns
\* a dict that did not exist before the call and is empty, so a store
\* through the result of one call never shows in the result of another;
\* with the first decode all failing calls that omit default return one and
\* the same dict, so the stores made through each result show in all.
C9_DefaultDicts ==
    /\ \A i \in FailedOmitted("decode2") :
          /\ calls[i].ret.type = "dict"
          /\ calls[i].ret.val[1] > calls[i].allocated
          /\ calls[i].content = {}
          /\ \A j \in DOMAIN calls \ {i} :
                /\ calls[j].ret # calls[i].ret
                /\ ~DictHas(Returned(i), KeyOf(j))
    /\ \A i, j \in FailedOmitted("decode1") :
          /\ calls[i].ret.type = "dict"
          /\ calls[i].ret = calls[j].ret
          /\ StoredThrough(i) => DictHas(Returned(j), KeyOf(i))

\* C9 witness: two failing calls of the second decode without default, a
\* store through each result, and each dict holds its own key alone.
C9_Witness ==
    /\ FailedOmitted("decode2") = {1, 2}
    /\ Returned(1) = {<<"Python", "good">>}
    /\ Returned(2) = {<<"Java", "good">>}

\* C10 as stated: when decoding fails, the second decode returns the value
\* the caller supplied as default, whatever that value is, and an empty
\* dictionary when none was supplied.
C10_SuppliedDefaultReturned ==
    \A i \in DOMAIN calls :
        (calls[i].fn = "decode2" /\ calls[i].data \in Failing) =>
            IF calls[i].default = Omitted
            THEN calls[i].ret.type = "dict" /\ calls[i].content = {}
            ELSE calls[i].ret = calls[i].default

\* The timestamp a printed line starts with: the number written in front of
\* the first colon.
RECURSIVE Number(_, _)
Number(cps, acc) ==
    IF cps = <<>> \/ cps[1] < 48 \/ cps[1] > 57 THEN acc
    ELSE Number(Tail(cps), 10 * acc + (cps[1] - 48))

Stamp(i) == Number(printed[i].line.val, 0)

DefaultCall(i, fn) == printed[i].fn = fn /\ printed[i].when = Omitted

Ended == frame.pc = "idle" /\ finished # NotCalled

\* C12: when a divide_json call has ended, by the return of the value, by the
\* return of UNDEFINED or by an exception that went on to the caller, the
\* file handle the call opened is closed.
C12_HandleClosed ==
    /\ frame.pc = "idle" => handle # "open"
    /\ Ended /\ opened.exists => handle = "closed"
    /\ Ended /\ finished.kind = "return" => handle = "closed"

\* A call has ended with the exception of a failed write, an exception of
\* the else block, and its handle is closed.
C12_Witness ==
    /\ Ended
    /\ frame.read
    /\ finished = Raise("OSError")
    /\ handle = "closed"

\* The try block evaluated op['denominator'], and it is zero.
DenominatorZero ==
    /\ frame.read
    /\ frame.op.type = "dict"
    /\ GetItem(frame.op, Numerator).kind = "return"
    /\ GetItem(frame.op, Denominator) \in
          {Return(PyInt(0)), Return(Val("float", <<0, 1>>))}

NumeratorIsNumber ==
    GetItem(frame.op, Numerator).value.type \in {"int", "float"}

\* The file is written in the else block only, which runs only when the try
\* block on the content of the file raises nothing.
WriteBackAfterTry ==
    /\ frame.pc = "else" =>
          /\ frame.pending = NotCalled
          /\ try_block(opened.text, TRUE).out = Return(frame.value)
    /\ file # opened =>
          /\ frame.pc \in {"finally", "idle"}
          /\ frame.read
          /\ try_block(opened.text, TRUE).out.kind = "return"

\* C13 as stated: whenever the denominator read from the file is zero, the
\* call returns UNDEFINED and leaves the file as it was.
C13_AsStated ==
    /\ Ended /\ DenominatorZero =>
          /\ finished = Return(UNDEFINED)
          /\ file = opened
    /\ WriteBackAfterTry

\* C13: when the numerator read from the file is a number and the
\* denominator read is zero, the call returns UNDEFINED and leaves the file
\* as it was; with any zero denominator the file is left as it was; the file
\* is written only after a try block that raised nothing.
C13_ZeroDenominator ==
    /\ Ended /\ DenominatorZero /\ NumeratorIsNumber =>
          /\ finished = Return(UNDEFINED)
          /\ file = opened
    /\ Ended /\ DenominatorZero => file = opened
    /\ WriteBackAfterTry

\* A call on a file with a numerator and a zero denominator has ended.
C13_Witness ==
    /\ Ended
    /\ DenominatorZero
    /\ NumeratorIsNumber
    /\ finished = Return(UNDEFINED)
    /\ file = opened

\* The try statement of the caller has ended on a call with a density that
\* is not positive.
UsageErrorHandled ==
    /\ args # <<>>
    /\ args[2] <= 0
    /\ in_flight = NoExc

\* C14: a call of determine_weight with density <= 0 raises an exception of
\* the module's Error hierarchy, so the except my_module.Error clause logs
\* 'Unexpected error' and the except Exception clause, which logs 'Bug in
\* the API code' and raises again, does not run.
C14_UsageErrorInHierarchy ==
    /\ in_flight # NoExc => issubclass(in_flight.type, "Error")
    /\ UsageErrorHandled =>
          /\ errors # <<>>
          /\ errors[Len(errors)].msg = "Unexpected error: %s"
          /\ weight.kind # "raise"

=============================================================================
